---- MODULE Spec2Model ----
(***************************************************************************)
(* Model of the credential-lifecycle core of openauth:                     *)
(*   - the ordered in-memory key-value store with expiry and persistence   *)
(*     (MemoryStorage) and the OAuth token store built on it               *)
(*     (createKvStore), src/packages/openauth/src/storage/memory.ts;       *)
(*   - the client's verify / refresh engine (createClient),                *)
(*     src/unnamed/part_000.                                               *)
(*                                                                         *)
(* Strings are sequences of UTF-16 code units (naturals).  The alphabet of *)
(* the model is the separator U+001F, ':' and the ASCII letters.           *)
(***************************************************************************)
EXTENDS Integers, Sequences, FiniteSets, TLC

VARIABLES
    store,         \* MemoryStorage: the backing array of [key, {value, expiry}]
    file,          \* the persistence target: <<>> when the file does not exist,
                   \* else <<content>>, what the file holds
    persist,       \* whether input.persist is configured
    now,           \* Date.now(), in milliseconds
    last,          \* the last completed store operation, its arguments and outcome
    ops,           \* number of store operations issued so far
    watch,         \* history: the key whose set/remove history is followed
    hist,          \* history: the last set on `watch` not followed by a remove of it
    inv,           \* the scan generators in progress, with their consumers
    pending,       \* the writeFile calls of save() that are in flight
    issuerCache,   \* client: what issuerCache holds for the issuer
    jwksCache,     \* client: whether jwksCache holds the issuer's key set
    vstack,        \* client: the frames of the verify call in progress
    vret,          \* client: the value just returned by the innermost verify frame
    vcall,         \* client: the arguments of the outermost verify call
    answers,       \* client: the token endpoint's answers during that call
    refreshCalls,  \* client: token-endpoint refresh calls made during that call
    rcall,         \* client: the refresh call made on its own, and its outcome
    callers,       \* client: the getJWKS calls in progress, one per caller
    net,           \* client: fetches of the issuer's endpoints and cache writes
    codec          \* the key codec applied to one key

vars == <<store, file, persist, now, last, ops, watch, hist, inv, pending,
          issuerCache, jwksCache, vstack, vret, vcall, answers, refreshCalls,
          rcall, callers, net, codec>>

storeVars == <<store, file, persist, now, last, ops, watch, hist, inv, pending>>
clientVars == <<issuerCache, jwksCache, vstack, vret, vcall, answers, refreshCalls>>
moreVars == <<rcall, callers, net, codec>>

----------------------------------------------------------------------------
(* Bounds of the model *)

MaxTime == 1        \* Date.now() ranges over 0..MaxTime
MaxKvOps == 3       \* store operations per behaviour of SpecStore
MaxScans == 1       \* scan generators in progress at once
MaxFacadeOps == 3   \* token-store operations per behaviour of SpecTokens
MaxRefresh == 3     \* refresh calls the issuer answers per verify call
MaxSegLen == 2      \* code units per segment of a key given to the codec
MaxSegs == 3        \* segments per key given to the codec
MaxCallers == 2     \* getJWKS calls that can be in progress at once
MaxCalls == 3       \* getJWKS calls per behaviour of SpecCache

----------------------------------------------------------------------------
(* Strings *)

SEPERATOR == 31

\* "oauth:code" and "oauth:refresh" as code units
OauthCode == <<111, 97, 117, 116, 104, 58, 99, 111, 100, 101>>
OauthRefresh == <<111, 97, 117, 116, 104, 58, 114, 101, 102, 114, 101, 115, 104>>

\* "a", "ab", "c", "bc", "B"
StrA == <<97>>
StrAB == <<97, 98>>
StrC == <<99>>
StrBC == <<98, 99>>
StrB == <<66>>

\* identifiers the callers of the token store pass in
Subjects == {StrA, StrAB}
Tokens == {StrC, StrBC}
Codes == {StrC}

Undefined == "undefined"
Values == {"v1", "v2"}

RECURSIVE joinKey(_)
joinKey(key) ==
    IF Len(key) = 0 THEN <<>>
    ELSE IF Len(key) = 1 THEN key[1]
    ELSE key[1] \o <<SEPERATOR>> \o joinKey(Tail(key))

RECURSIVE splitFrom(_, _)
\* split of `str` given the segment `cur` read so far
splitFrom(str, cur) ==
    IF Len(str) = 0 THEN <<cur>>
    ELSE IF Head(str) = SEPERATOR THEN <<cur>> \o splitFrom(Tail(str), <<>>)
    ELSE splitFrom(Tail(str), Append(cur, Head(str)))

\* mutant: empty segments are dropped
splitKey_withoutEmpty(key) ==
    SelectSeq(splitFrom(key, <<>>), LAMBDA seg : seg # <<>>)

splitKey(key) == splitFrom(key, <<>>)

NotSeperator(c) == c # SEPERATOR

encode(key) == [i \in 1..Len(key) |-> SelectSeq(key[i], NotSeperator)]

startsWith(str, prefix) ==
    /\ Len(prefix) <= Len(str)
    /\ SubSeq(str, 1, Len(prefix)) = prefix

----------------------------------------------------------------------------
(* String.prototype.localeCompare over the model's alphabet (root          *)
(* collation, strength tertiary): control characters such as U+001F carry  *)
(* no weight at any level; letters compare by letter first and, when all   *)
(* letters agree, by case, lower case first.                               *)

Ignorable(c) == c \in (0..8) \cup (14..31) \cup {127}
NotIgnorable(c) == ~Ignorable(c)
IsUpper(c) == c \in 65..90
PrimaryWeight(c) == IF IsUpper(c) THEN c + 32 ELSE c
TertiaryWeight(c) == IF IsUpper(c) THEN 1 ELSE 0

RECURSIVE LexCompare(_, _)
LexCompare(x, y) ==
    IF Len(x) = 0 /\ Len(y) = 0 THEN 0
    ELSE IF Len(x) = 0 THEN -1
    ELSE IF Len(y) = 0 THEN 1
    ELSE IF Head(x) < Head(y) THEN -1
    ELSE IF Head(x) > Head(y) THEN 1
    ELSE LexCompare(Tail(x), Tail(y))

localeCompare(x, y) ==
    LET ex == SelectSeq(x, NotIgnorable)
        ey == SelectSeq(y, NotIgnorable)
        p == LexCompare([i \in 1..Len(ex) |-> PrimaryWeight(ex[i])],
                        [i \in 1..Len(ey) |-> PrimaryWeight(ey[i])])
    IN  IF p # 0 THEN p
        ELSE LexCompare([i \in 1..Len(ex) |-> TertiaryWeight(ex[i])],
                        [i \in 1..Len(ey) |-> TertiaryWeight(ey[i])])

----------------------------------------------------------------------------
(* MemoryStorage *)

\* an optional number: {} is undefined, {n} is the number n
NoExpiry == {}
Truthy(e) == e # {} /\ e # {0}
NumberOf(e) == CHOOSE n \in e : TRUE

Entry(key, value, expiry) == [key |-> key, value |-> value, expiry |-> expiry]

RECURSIVE searchLoop(_, _, _, _)
\* the while loop of search, indices counted from 0 as in the source
searchLoop(st, key, left, right) ==
    IF left <= right
    THEN LET mid == (left + right) \div 2
             comparison == localeCompare(key, st[mid + 1].key)
         IN  IF comparison = 0 THEN [found |-> TRUE, index |-> mid]
             ELSE IF comparison < 0 THEN searchLoop(st, key, left, mid - 1)
             ELSE searchLoop(st, key, mid + 1, right)
    ELSE [found |-> FALSE, index |-> left]

search(st, key) == searchLoop(st, key, 0, Len(st) - 1)

\* store.splice(index, 1)
spliceOut(st, index) == SubSeq(st, 1, index) \o SubSeq(st, index + 2, Len(st))
\* store.splice(index, 0, entry)
spliceIn(st, index, entry) ==
    SubSeq(st, 1, index) \o <<entry>> \o SubSeq(st, index + 1, Len(st))

\* mutant: the expiry is not written out
stringifyEntry_withoutExpiry(e) == <<e.key, [value |-> e.value]>>

\* JSON.stringify(store): a property whose value is undefined is left out
stringifyEntry(e) ==
    IF e.expiry = NoExpiry
    THEN <<e.key, [value |-> e.value]>>
    ELSE <<e.key, [value |-> e.value, expiry |-> NumberOf(e.expiry)]>>
stringify(st) == [i \in 1..Len(st) |-> stringifyEntry(st[i])]

\* JSON.parse(file): reading a property that is not there gives undefined
parseEntry(j) ==
    Entry(j[1], j[2].value,
          IF "expiry" \in DOMAIN j[2] THEN {j[2].expiry} ELSE NoExpiry)
parse(text) == [i \in 1..Len(text) |-> parseEntry(text[i])]

\* the number of decimal digits of a natural number
RECURSIVE digits(_)
digits(n) == IF n < 10 THEN 1 ELSE 1 + digits(n \div 10)

\* the length of a string in JSON: the quotes, and \u001f for the separator
RECURSIVE escapedLength(_)
escapedLength(str) ==
    IF Len(str) = 0 THEN 0
    ELSE (IF Head(str) = SEPERATOR THEN 6 ELSE 1) + escapedLength(Tail(str))

\* the length of ["key",{"value":"v1"}] or ["key",{"value":"v1","expiry":n}];
\* the values of the model are strings of two characters
entryLength(j) ==
    1 + (escapedLength(j[1]) + 2) + 1 + 9 + 4
      + (IF "expiry" \in DOMAIN j[2] THEN 10 + digits(j[2].expiry) ELSE 0) + 2

RECURSIVE entriesLength(_)
entriesLength(text) ==
    IF Len(text) = 0 THEN 0
    ELSE entryLength(Head(text)) + (IF Len(text) > 1 THEN 1 ELSE 0)
           + entriesLength(Tail(text))

\* the length of JSON.stringify(store), in bytes
jsonLength(text) == 2 + entriesLength(text)

\* What the file holds: a serialized array; nothing, after writeFile has
\* opened it with truncation; or the start of one text over the rest of a
\* longer one, which is not JSON.
FileText(text) == [json |-> TRUE, text |-> text, len |-> jsonLength(text)]
ZeroBytes == [json |-> FALSE, text |-> <<>>, len |-> 0]
Hybrid(len) == [json |-> FALSE, text |-> <<>>, len |-> len]

\* the file after `text` was written at its start
overwrite(content, text) ==
    IF jsonLength(text) >= content.len THEN FileText(text) ELSE Hybrid(content.len)

\* the constructor: JSON.parse of the file throws a SyntaxError
loadThrows(p, f) == p /\ Len(f) > 0 /\ ~f[1].json

\* the constructor: the array loaded from the persistence target
load(p, f) == IF p /\ Len(f) > 0 THEN parse(f[1].text) ELSE <<>>

\* save(): the writeFile call it starts for the array `st`; `owner` is the
\* scan consumer that awaits it, 0 when another caller does
writeFile(st, owner) ==
    [text |-> stringify(st), opened |-> FALSE, owner |-> owner]

\* get(key): the new array, the value returned, whether save() was called
get(st, key, t) ==
    LET match == search(st, joinKey(key))
    IN  IF ~match.found
        THEN [store |-> st, result |-> Undefined, threw |-> FALSE, saved |-> FALSE]
        ELSE LET entry == st[match.index + 1]
             IN  IF Truthy(entry.expiry) /\ t >= NumberOf(entry.expiry)
                 THEN [store |-> spliceOut(st, match.index), result |-> Undefined,
                       threw |-> FALSE, saved |-> TRUE]
                 ELSE [store |-> st, result |-> entry.value,
                       threw |-> FALSE, saved |-> FALSE]

\* The expiry argument of set: undefined, a Date, or a number (createKvStore
\* passes its ttl on as it is).
ExpUndefined == [t |-> "undefined", n |-> 0]
ExpDate(ms) == [t |-> "date", n |-> ms]
ExpNumber(n) == [t |-> "number", n |-> n]

\* expiry ? expiry.getTime() : expiry.  A number has no getTime: TypeError.
expiryThrows(expiry) == expiry.t = "number" /\ expiry.n # 0
expiryStored(expiry) ==
    IF expiry.t = "undefined" THEN NoExpiry ELSE {expiry.n}

\* set(key, value, expiry)
set(st, key, value, expiry) ==
    LET joined == joinKey(key)
        match == search(st, joined)
    IN  IF expiryThrows(expiry)
        THEN [store |-> st, result |-> Undefined, threw |-> TRUE, saved |-> FALSE]
        ELSE LET entry == Entry(joined, value, expiryStored(expiry))
             IN  [store |-> IF ~match.found
                            THEN spliceIn(st, match.index, entry)
                            ELSE [st EXCEPT ![match.index + 1] = entry],
                  result |-> Undefined, threw |-> FALSE, saved |-> TRUE]

\* remove(key)
remove(st, key) ==
    LET match == search(st, joinKey(key))
    IN  IF match.found
        THEN [store |-> spliceOut(st, match.index), result |-> Undefined,
              threw |-> FALSE, saved |-> TRUE]
        ELSE [store |-> st, result |-> Undefined, threw |-> FALSE, saved |-> FALSE]

\* whether scan, started at time t0 with this prefix, yields the entry
scanYields(e, prefixStr, t0) ==
    /\ startsWith(e.key, prefixStr)
    /\ ~(Truthy(e.expiry) /\ t0 >= NumberOf(e.expiry))

\* scan(prefix) run to its end with nothing in between: the pairs it yields
scan(st, prefix, t0) ==
    LET hits == SelectSeq(st, LAMBDA e : scanYields(e, joinKey(prefix), t0))
    IN  [i \in 1..Len(hits) |-> <<splitKey(hits[i].key), hits[i].value>>]

----------------------------------------------------------------------------
(* createClient: verify and refresh *)

\* An access token, by what the verifier and the subject schema make of it:
\* whether its signature verifies, its exp claim (seconds), whether the
\* caller's subjects map has a schema for its type, whether that schema
\* reports issues, and its mode claim.
AccessToken(id, sig, exp, known, issues, mode) ==
    [id |-> id, sig |-> sig, exp |-> exp, known |-> known, issues |-> issues,
     mode |-> mode]

\* the clock of the client, Date.now() in milliseconds
ClientNow == 100 * 1000

Good1 == AccessToken("good1", TRUE, 160, TRUE, FALSE, "access")
Good2 == AccessToken("good2", TRUE, 160, TRUE, FALSE, "access")
Expired1 == AccessToken("expired1", TRUE, 50, TRUE, FALSE, "access")
Expired2 == AccessToken("expired2", TRUE, 50, TRUE, FALSE, "access")
BadSignature == AccessToken("badsig", FALSE, 160, TRUE, FALSE, "access")
WithIssues == AccessToken("issues", TRUE, 160, TRUE, TRUE, "access")
WrongMode == AccessToken("mode", TRUE, 160, TRUE, FALSE, "refresh")
UnknownType == AccessToken("unknown", TRUE, 160, FALSE, FALSE, "access")
\* json.access_token when the answer has no such field: not a string
NoAccess == AccessToken("undefined", FALSE, 0, FALSE, FALSE, "")

AccessTokens ==
    {Good1, Good2, Expired1, Expired2, BadSignature, WithIssues, WrongMode,
     UnknownType}

\* refresh tokens; "" stands for a missing one (undefined)
NoRefresh == ""
RefreshTokens == {"r1", "r2"}

\* the answers of the token endpoint to a refresh request
RefreshAnswers ==
    [ok : BOOLEAN, access : AccessTokens \cup {NoAccess},
     refresh : RefreshTokens \cup {NoRefresh}]

\* jwtVerify(token, jwks, {issuer}): the payload, or the error thrown
jwtVerify(token, t) ==
    IF ~token.sig THEN "invalid"
    ELSE IF token.exp <= t \div 1000 THEN "JWTExpired"
    ELSE "payload"

NoResult == [kind |-> "none", err |-> "", subject |-> "", tokens |-> <<>>]
Success(token) == [kind |-> "ok", err |-> "", subject |-> token.id, tokens |-> <<>>]
Failed(err) == [kind |-> "err", err |-> err, subject |-> "", tokens |-> <<>>]
\* verify rejects: the promise it returned is rejected with what getJWKS or
\* refresh threw, and the caller gets neither a subject nor a typed error
Rejected == [kind |-> "rejected", err |-> "", subject |-> "", tokens |-> <<>>]
\* verify goes on to this.refresh(options.refresh)
ToRefresh == [kind |-> "refresh", err |-> "", subject |-> "", tokens |-> <<>>]

\* the try block of verify and the catch that follows it, up to the refresh
tryVerify(token, refresh, t) ==
    LET verified == jwtVerify(token, t)
    IN  IF verified = "payload"
        THEN IF ~token.known
             \* subjects[type] is undefined: the TypeError lands in the catch
             THEN Failed("InvalidAccessToken")
             ELSE IF ~token.issues /\ token.mode = "access"
             THEN Success(token)
             ELSE Failed("InvalidSubject")
        ELSE IF verified = "JWTExpired" /\ refresh # NoRefresh
        THEN ToRefresh
        ELSE Failed("InvalidAccessToken")

\* mutant: a token that expires in exactly 30 seconds is fresh enough too
refreshSkips_atLeast(access, t) ==
    /\ access # <<>>
    /\ access[1].exp * 1000 >= t + 30 * 1000

\* refresh(refresh, opts): whether it returns {} without calling the endpoint
\* (`access` is <<>> when opts.access is not given, else <<token>>)
refreshSkips(access, t) ==
    /\ access # <<>>
    /\ access[1].exp * 1000 > t + 30 * 1000

\* refresh(refresh): what it returns for the endpoint's answer
refreshed(answer) ==
    IF ~answer.ok
    THEN Failed("InvalidRefreshToken")
    ELSE [kind |-> "ok", err |-> "", subject |-> "",
          tokens |-> <<[access |-> answer.access, refresh |-> answer.refresh]>>]

\* mutant: the result of the recursive call is returned as it is
resumed_withoutTokens(verified, tokens) == verified

\* verify after the recursive call returned `verified`, or rejected: the
\* await is in the catch block, so what it throws leaves verify
resumed(verified, tokens) ==
    IF verified.kind \in {"err", "rejected"} THEN verified
    ELSE [verified EXCEPT !.tokens = tokens]

----------------------------------------------------------------------------
(* getJWKS and getIssuer step by step, one step from each await to the     *)
(* next.  A body is "metadata" (a JSON object with jwks_uri), "keyset" (a  *)
(* JSON Web Key Set), "object" (any other JSON value that is truthy, such  *)
(* as an error document: its jwks_uri is undefined), "falsy" (0, false or  *)
(* "": not truthy, and its jwks_uri is undefined too), "null" (the JSON    *)
(* value null, whose jwks_uri cannot be read) or "notjson" (r.json()       *)
(* rejects).                                                               *)

\* issuerCache.get(issuer) when the map has no entry for the issuer
NoEntry == "absent"

Callers == 1..MaxCallers

\* the promise f(url) returned is rejected: no response
FetchRejected == [ok |-> FALSE, body |-> "rejected"]

DiscoveryResponses ==
    [ok : BOOLEAN, body : {"metadata", "object", "falsy", "null", "notjson"}]
        \cup {FetchRejected}
JwksResponses ==
    [ok : BOOLEAN, body : {"keyset", "object", "falsy", "null", "notjson"}]
        \cup {FetchRejected}

\* what `if (cached)` takes for no entry: undefined (the map has none for
\* the issuer) and the stored values that are not truthy
NotTruthy == {NoEntry, "null", "falsy"}

\* mutant: the cache is never taken to hold the entry
cacheHit_never(cached) == FALSE

\* `if (cached) return cached`, for what issuerCache.get returned
cacheHit(cached) == cached \notin NotTruthy

CallerIdle ==
    [pc |-> "idle", wk |-> NoEntry, hadIssuer |-> FALSE, hadJwks |-> FALSE,
     fetchedIssuer |-> FALSE, wroteIssuer |-> FALSE,
     fetchedJwks |-> FALSE, wroteJwks |-> FALSE]

\* what has been done with f so far.  inputFetch tells whether createClient
\* was given a fetch (input.fetch) or f is the platform's, which rejects a
\* url that is not a string.
NetIdle ==
    [inputFetch |-> TRUE, calls |-> 0, issuerFetches |-> 0, issuerWrites |-> 0,
     issuerOk |-> TRUE, jwksFetches |-> 0, jwksWrites |-> 0]

\* createClient({clientID, issuer, fetch?})
Clients == {[NetIdle EXCEPT !.inputFetch = given] : given \in BOOLEAN}

\* getJWKS() up to its first await: it calls getIssuer(), which returns the
\* cached metadata or starts the fetch of the discovery endpoint.  hadIssuer
\* and hadJwks record what the two maps held when the call started.
getJWKSStart(p) ==
    LET started == [CallerIdle EXCEPT
                       !.hadIssuer = issuerCache \notin NotTruthy,
                       !.hadJwks = jwksCache]
    IN  IF cacheHit(issuerCache)
        THEN /\ callers' = [callers EXCEPT ![p] =
                     [started EXCEPT !.pc = "gotIssuer", !.wk = issuerCache]]
             /\ net' = [net EXCEPT !.calls = @ + 1]
        ELSE /\ callers' = [callers EXCEPT ![p] =
                     [started EXCEPT !.pc = "issuerFetch", !.fetchedIssuer = TRUE]]
             /\ net' = [net EXCEPT !.calls = @ + 1, !.issuerFetches = @ + 1]

\* getJWKS() is called by a caller that has no call in progress
getJWKSCall(p) ==
    /\ callers[p].pc \in {"idle", "done", "rejected"}
    /\ net.calls < MaxCalls
    /\ getJWKSStart(p)
    /\ UNCHANGED <<storeVars, clientVars, rcall, codec>>

\* the discovery endpoint answers: the parsed body is cached, whatever the
\* status of the response; getIssuer rejects when the fetch rejects or the
\* body is not JSON, and then nothing is cached
issuerResponse(p, r) ==
    /\ callers[p].pc = "issuerFetch"
    /\ IF r.body \in {"rejected", "notjson"}
       THEN /\ callers' = [callers EXCEPT ![p].pc = "rejected"]
            /\ UNCHANGED <<issuerCache, net>>
       ELSE /\ issuerCache' = r.body
            /\ net' = [net EXCEPT !.issuerWrites = @ + 1, !.issuerOk = r.ok]
            /\ callers' = [callers EXCEPT ![p].pc = "gotIssuer",
                                          ![p].wk = r.body,
                                          ![p].wroteIssuer = TRUE]
    /\ UNCHANGED <<storeVars, jwksCache, vstack, vret, vcall, answers,
                   refreshCalls, rcall, codec>>

\* getJWKS resumes with what getIssuer returned: it returns the cached key
\* set, or calls f(wk.jwks_uri).  Reading jwks_uri of null throws.  Any
\* other value without jwks_uri gives f(undefined): the platform's fetch
\* rejects it, a fetch given to createClient is called and may answer.
jwksLookup(p) ==
    /\ callers[p].pc = "gotIssuer"
    /\ IF cacheHit(IF jwksCache THEN "keyset" ELSE NoEntry)
       THEN /\ callers' = [callers EXCEPT ![p].pc = "done"]
            /\ UNCHANGED net
       ELSE IF \/ callers[p].wk = "metadata"
               \/ callers[p].wk \in {"object", "falsy"} /\ net.inputFetch
       THEN /\ callers' = [callers EXCEPT ![p].pc = "jwksFetch",
                                          ![p].fetchedJwks = TRUE]
            /\ net' = [net EXCEPT !.jwksFetches = @ + 1]
       ELSE /\ callers' = [callers EXCEPT ![p].pc = "rejected"]
            /\ UNCHANGED net
    /\ UNCHANGED <<storeVars, clientVars, rcall, codec>>

\* the fetch of the key set answers: createLocalJWKSet takes a key set only,
\* and its result is cached, whatever the status of the response; getJWKS
\* rejects when the fetch rejects or the body is anything else
jwksResponse(p, r) ==
    /\ callers[p].pc = "jwksFetch"
    /\ IF r.body = "keyset"
       THEN /\ jwksCache' = TRUE
            /\ net' = [net EXCEPT !.jwksWrites = @ + 1]
            /\ callers' = [callers EXCEPT ![p].pc = "done", ![p].wroteJwks = TRUE]
       ELSE /\ callers' = [callers EXCEPT ![p].pc = "rejected"]
            /\ UNCHANGED <<jwksCache, net>>
    /\ UNCHANGED <<storeVars, issuerCache, vstack, vret, vcall, answers,
                   refreshCalls, rcall, codec>>

----------------------------------------------------------------------------
(* verify step by step.  One caller awaits each verify before it calls the *)
(* next; the getJWKS call of a verify is the call of caller Verifier.      *)

Verifier == 1

Frame(token, refresh) ==
    [pc |-> "getJWKS", access |-> token, refresh |-> refresh, refreshed |-> <<>>]

Top == vstack[Len(vstack)]
Pop == SubSeq(vstack, 1, Len(vstack) - 1)
SetTop(frame) == [vstack EXCEPT ![Len(vstack)] = frame]

\* verify(subjects, token, {refresh}) is called and runs up to the first
\* await of the getJWKS() it calls
verifyCall(token, refresh) ==
    /\ vstack = <<>>
    /\ net.calls < MaxCalls
    /\ vstack' = <<Frame(token, refresh)>>
    /\ vcall' = [token |-> token, refresh |-> refresh]
    /\ vret' = NoResult
    /\ answers' = <<>>
    /\ refreshCalls' = 0
    /\ getJWKSStart(Verifier)
    /\ UNCHANGED <<storeVars, rcall, codec, issuerCache, jwksCache>>

\* `const jwks = await getJWKS()`: verify goes on with the key set, or
\* rejects with what getJWKS threw, the await being outside the try
verifyJWKS ==
    /\ vstack # <<>>
    /\ Top.pc = "getJWKS"
    /\ callers[Verifier].pc \in {"done", "rejected"}
    /\ IF callers[Verifier].pc = "done"
       THEN /\ vstack' = SetTop([Top EXCEPT !.pc = "jwtVerify"])
            /\ UNCHANGED vret
       ELSE /\ vret' = Rejected
            /\ vstack' = Pop
    /\ UNCHANGED <<storeVars, moreVars, issuerCache, jwksCache, vcall, answers,
                   refreshCalls>>

\* the token is verified and validated: verify returns, or calls refresh,
\* which posts to the token endpoint
verifyToken ==
    /\ vstack # <<>>
    /\ Top.pc = "jwtVerify"
    /\ LET r == tryVerify(Top.access, Top.refresh, now)
       IN  IF r.kind = "refresh"
           THEN /\ ~refreshSkips(<<>>, now)
                /\ refreshCalls < MaxRefresh
                /\ refreshCalls' = refreshCalls + 1
                /\ vstack' = SetTop([Top EXCEPT !.pc = "refresh"])
                /\ UNCHANGED vret
           ELSE /\ vret' = r
                /\ vstack' = Pop
                /\ UNCHANGED refreshCalls
    /\ UNCHANGED <<storeVars, moreVars, issuerCache, jwksCache, vcall, answers>>

\* the token endpoint answers with JSON: refresh returns, and verify either
\* returns its error or calls itself with the new pair, which runs up to
\* the first await of its getJWKS()
refreshAnswer(answer) ==
    /\ vstack # <<>>
    /\ Top.pc = "refresh"
    /\ answers' = Append(answers, answer)
    /\ LET r == refreshed(answer)
       IN  IF r.kind = "err"
           THEN /\ vret' = r
                /\ vstack' = Pop
                /\ UNCHANGED <<callers, net>>
           ELSE /\ net.calls < MaxCalls
                /\ vret' = NoResult
                /\ vstack' = Append(SetTop([Top EXCEPT !.pc = "verify",
                                                       !.refreshed = r.tokens]),
                                    Frame(r.tokens[1].access, r.tokens[1].refresh))
                /\ getJWKSStart(Verifier)
    /\ UNCHANGED <<storeVars, rcall, codec, issuerCache, jwksCache, vcall,
                   refreshCalls>>

\* the POST to the token endpoint rejects, or its answer is not JSON or null:
\* refresh rejects (lines 150 and 160 are in no try), and so does verify,
\* which awaits it in its catch block
refreshRejects ==
    /\ vstack # <<>>
    /\ Top.pc = "refresh"
    /\ vret' = Rejected
    /\ vstack' = Pop
    /\ UNCHANGED <<storeVars, moreVars, issuerCache, jwksCache, vcall, answers,
                   refreshCalls>>

\* the recursive verify returned or rejected: verify returns its error or
\* rejects likewise, or returns its result with tokens set to the pair this
\* frame got from refresh
verifyResume ==
    /\ vstack # <<>>
    /\ Top.pc = "verify"
    /\ vret.kind # "none"
    /\ vret' = resumed(vret, Top.refreshed)
    /\ vstack' = Pop
    /\ UNCHANGED <<storeVars, moreVars, issuerCache, jwksCache, vcall, answers, refreshCalls>>

----------------------------------------------------------------------------
(* refresh(refresh, opts) called on its own                                *)

\* the exp claims of the access tokens given as opts.access, in seconds;
\* 0 also stands for a token without exp (decoded.exp || 0)
RefreshExps == {0, 129, 130, 131, 160}
RefreshAccess ==
    {AccessToken("access", TRUE, e, TRUE, FALSE, "access") : e \in RefreshExps}
\* Date.now() in milliseconds at the call
RefreshClocks == {ClientNow - 1, ClientNow, ClientNow + 1}

\* refresh returns {}: neither tokens nor an error
Skipped == [kind |-> "ok", err |-> "", subject |-> "", tokens |-> <<>>]

RefreshIdle ==
    [pc |-> "idle", refresh |-> NoRefresh, access |-> <<>>, at |-> 0,
     posts |-> 0, result |-> NoResult]

\* refresh(refresh, {access}) is called: it returns {} at once or posts the
\* refresh token to the token endpoint
refreshCall(refresh, access) ==
    /\ rcall.pc \in {"idle", "done", "rejected"}
    /\ rcall' = IF refreshSkips(access, now)
                THEN [pc |-> "done", refresh |-> refresh, access |-> access,
                      at |-> now, posts |-> 0, result |-> Skipped]
                ELSE [pc |-> "post", refresh |-> refresh, access |-> access,
                      at |-> now, posts |-> 1, result |-> NoResult]
    /\ UNCHANGED <<storeVars, clientVars, callers, net, codec>>

\* the token endpoint answers the POST with JSON and refresh returns
refreshPost(answer) ==
    /\ rcall.pc = "post"
    /\ rcall' = [rcall EXCEPT !.pc = "done", !.result = refreshed(answer)]
    /\ UNCHANGED <<storeVars, clientVars, callers, net, codec>>

\* the POST rejects, or its answer is not JSON or null: refresh rejects
refreshPostRejects ==
    /\ rcall.pc = "post"
    /\ rcall' = [rcall EXCEPT !.pc = "rejected", !.result = Rejected]
    /\ UNCHANGED <<storeVars, clientVars, callers, net, codec>>

----------------------------------------------------------------------------
(* The key codec on its own: a key is joined, the flat key is split.       *)

\* the code units of the segments: a letter and the separator
CodecUnits == {97, SEPERATOR}
CodecSegments == UNION {[1..n -> CodecUnits] : n \in 0..MaxSegLen}
CodecKeys == UNION {[1..n -> CodecSegments] : n \in 0..MaxSegs}

CodecIdle == [pc |-> "idle", xs |-> <<>>, flat |-> <<>>, back |-> <<>>]

\* joinKey(xs)
joinKeyCall(xs) ==
    /\ codec.pc = "idle"
    /\ codec' = [pc |-> "joined", xs |-> xs, flat |-> joinKey(xs), back |-> <<>>]
    /\ UNCHANGED <<storeVars, clientVars, rcall, callers, net>>

\* splitKey of the flat key
splitKeyCall ==
    /\ codec.pc = "joined"
    /\ codec' = [codec EXCEPT !.pc = "split", !.back = splitKey(codec.flat)]
    /\ UNCHANGED <<storeVars, clientVars, rcall, callers, net>>

InitMoreIdle ==
    /\ rcall = RefreshIdle
    /\ callers = [p \in Callers |-> CallerIdle]
    /\ codec = CodecIdle

InitClientIdle ==
    /\ issuerCache = NoEntry
    /\ jwksCache = FALSE
    /\ vstack = <<>>
    /\ vret = NoResult
    /\ vcall = [token |-> NoAccess, refresh |-> NoRefresh]
    /\ answers = <<>>
    /\ refreshCalls = 0

----------------------------------------------------------------------------
(* The operations of the store as actions.  An action is what an operation *)
(* does when it is called, up to its `await save()`: the array is changed  *)
(* and save() has serialized it and started the writeFile, which goes on   *)
(* while other callers' operations run.  A scan is a generator: it runs    *)
(* from one yield to the next, and other operations run in between.        *)

\* keys the adapter's get, set and remove are called with
KvKeys == {<<StrA, StrBC>>, <<StrAB, StrC>>, <<StrA, StrC>>, <<StrB>>}
\* prefixes the adapter's scan is called with
KvPrefixes == {<<StrA>>, <<StrAB>>}
\* expiry arguments of the adapter's set: none, new Date(0), new Date(1)
KvExpiries == {ExpUndefined, ExpDate(0), ExpDate(1)}

NoOp ==
    [op |-> "none", key |-> <<>>, result |-> Undefined, threw |-> FALSE,
     saved |-> FALSE, yielded |-> <<>>, before |-> <<>>, at |-> 0, ttl |-> 0,
     mixed |-> FALSE]

\* the record of an operation that was called: `before` is the array it found
Done(op, key, r, before) ==
    [op |-> op, key |-> key, result |-> r.result, threw |-> r.threw,
     saved |-> r.saved, yielded |-> <<>>, before |-> before, at |-> now,
     ttl |-> 0, mixed |-> FALSE]

NoHist == [set |-> FALSE, value |-> Undefined, expiry |-> NoExpiry]

\* a scan generator at its first resumption: it reads the clock and joins
\* the prefix.  idx is the position of the array iterator of
\* `for ... of store`; `mixed` records that another caller changed the array
\* while the generator was suspended.
Cursor(kind, id, subject, prefix) ==
    [kind |-> kind, id |-> id, pc |-> "next", subject |-> subject,
     prefix |-> prefix, prefixStr |-> joinKey(prefix), t0 |-> now, idx |-> 0,
     cur |-> <<>>, before |-> store, yielded |-> <<>>, mixed |-> FALSE]

\* the generators other than `own` see the array changed by the outcome r
Mix(cursors, own, r) ==
    [i \in 1..Len(cursors) |->
        IF i = own \/ r.store = store THEN cursors[i]
        ELSE [cursors[i] EXCEPT !.mixed = TRUE]]

RemoveAt(seq, i) == SubSeq(seq, 1, i - 1) \o SubSeq(seq, i + 1, Len(seq))

\* the effect of a store operation with outcome r, up to its await
Apply(r, owner) ==
    /\ store' = r.store
    /\ pending' = IF r.saved /\ persist
                  THEN Append(pending, writeFile(r.store, owner))
                  ELSE pending
    /\ UNCHANGED file

KvGet(key) ==
    /\ ops < MaxKvOps
    /\ LET r == get(store, key, now)
       IN  /\ Apply(r, 0)
           /\ inv' = Mix(inv, 0, r)
           /\ last' = Done("get", key, r, store)
    /\ ops' = ops + 1
    /\ UNCHANGED <<persist, now, watch, hist, clientVars, moreVars>>

KvSet(key, value, expiry) ==
    /\ ops < MaxKvOps
    /\ LET r == set(store, key, value, expiry)
       IN  /\ Apply(r, 0)
           /\ inv' = Mix(inv, 0, r)
           /\ last' = Done("set", key, r, store)
           /\ hist' = IF key = watch /\ ~r.threw
                      THEN [set |-> TRUE, value |-> value,
                            expiry |-> expiryStored(expiry)]
                      ELSE hist
    /\ ops' = ops + 1
    /\ UNCHANGED <<persist, now, watch, clientVars, moreVars>>

KvRemove(key) ==
    /\ ops < MaxKvOps
    /\ LET r == remove(store, key)
       IN  /\ Apply(r, 0)
           /\ inv' = Mix(inv, 0, r)
           /\ last' = Done("remove", key, r, store)
    /\ hist' = IF key = watch THEN NoHist ELSE hist
    /\ ops' = ops + 1
    /\ UNCHANGED <<persist, now, watch, clientVars, moreVars>>

\* writeFile opens the file with truncation
writeFileOpen(i) ==
    /\ i \in 1..Len(pending)
    /\ ~pending[i].opened
    /\ file' = <<ZeroBytes>>
    /\ pending' = [pending EXCEPT ![i].opened = TRUE]
    /\ UNCHANGED <<store, persist, now, last, ops, watch, hist, inv,
                   clientVars, moreVars>>

\* writeFile writes its text at the start of the file and completes
writeFileWrite(i) ==
    /\ i \in 1..Len(pending)
    /\ pending[i].opened
    /\ file' = <<overwrite(file[1], pending[i].text)>>
    /\ pending' = RemoveAt(pending, i)
    /\ UNCHANGED <<store, persist, now, last, ops, watch, hist, inv,
                   clientVars, moreVars>>

\* positions from the iterator's on, in the array as it is now, that scan yields
scanHits(st, cursor) ==
    {j \in cursor.idx..(Len(st) - 1) :
        scanYields(st[j + 1], cursor.prefixStr, cursor.t0)}

Min(S) == CHOOSE x \in S : \A y \in S : x <= y

\* the generator runs to its next yield, over the array as it is now
resume(cursor, st) ==
    LET j == Min(scanHits(st, cursor))
    IN  [cursor EXCEPT !.idx = j + 1,
                       !.cur = splitKey(st[j + 1].key),
                       !.yielded = Append(@, <<splitKey(st[j + 1].key),
                                               st[j + 1].value>>)]

\* the record of a scan whose generator has returned
Scanned(op, key, cursor) ==
    [NoOp EXCEPT !.op = op, !.key = key, !.yielded = cursor.yielded,
                 !.before = cursor.before, !.at = cursor.t0,
                 !.mixed = cursor.mixed]

\* scan(prefix) is called and pulled for the first time
scanCall(prefix) ==
    /\ ops < MaxKvOps
    /\ Len(inv) < MaxScans
    /\ inv' = Append(inv, Cursor("scan", ops + 1, <<>>, prefix))
    /\ ops' = ops + 1
    /\ UNCHANGED <<store, file, persist, now, last, watch, hist, pending,
                   clientVars, moreVars>>

\* the generator yields the next entry to its consumer
scanYield(c) ==
    /\ c \in 1..Len(inv)
    /\ inv[c].kind = "scan"
    /\ scanHits(store, inv[c]) # {}
    /\ inv' = [inv EXCEPT ![c] = resume(inv[c], store)]
    /\ UNCHANGED <<store, file, persist, now, last, ops, watch, hist, pending,
                   clientVars, moreVars>>

\* the iterator reaches the end of the array: the scan is complete
scanReturn(c) ==
    /\ c \in 1..Len(inv)
    /\ inv[c].kind = "scan"
    /\ scanHits(store, inv[c]) = {}
    /\ last' = Scanned("scan", inv[c].prefix, inv[c])
    /\ inv' = RemoveAt(inv, c)
    /\ UNCHANGED <<store, file, persist, now, ops, watch, hist, pending,
                   clientVars, moreVars>>

\* time passes
Tick ==
    /\ now < MaxTime
    /\ now' = now + 1
    /\ UNCHANGED <<store, file, persist, last, ops, watch, hist, inv, pending,
                   clientVars, moreVars>>

InitStore ==
    /\ persist = FALSE
    /\ file = <<>>
    /\ store = load(persist, file)
    /\ now = 0
    /\ last = NoOp
    /\ ops = 0
    /\ watch = <<>>
    /\ hist = NoHist
    /\ inv = <<>>
    /\ pending = <<>>
    /\ InitClientIdle
    /\ InitMoreIdle
    /\ net = NetIdle

InitStoreHist ==
    /\ persist = FALSE
    /\ file = <<>>
    /\ store = load(persist, file)
    /\ now = 0
    /\ last = NoOp
    /\ ops = 0
    /\ watch \in KvKeys
    /\ hist = NoHist
    /\ inv = <<>>
    /\ pending = <<>>
    /\ InitClientIdle
    /\ InitMoreIdle
    /\ net = NetIdle

NextStore ==
    \/ \E key \in KvKeys : KvGet(key)
    \/ \E key \in KvKeys, value \in Values, expiry \in KvExpiries :
          KvSet(key, value, expiry)
    \/ \E key \in KvKeys : KvRemove(key)
    \/ \E prefix \in KvPrefixes : scanCall(prefix)
    \/ \E c \in 1..Len(inv) : scanYield(c)
    \/ \E c \in 1..Len(inv) : scanReturn(c)
    \/ Tick

\* the adapter without persistence target driven directly: get, set, remove
\* and scan by any callers in any order
SpecStore == InitStore /\ [][NextStore]_vars

\* the same, following the history of one key
SpecStoreHist == InitStoreHist /\ [][NextStore]_vars

----------------------------------------------------------------------------
(* createKvStore: the OAuth token store over the adapter *)

CodeKey(code) == <<OauthCode, code>>
RefreshKey(subject, token) == <<OauthRefresh, subject, token>>

\* ttl arguments of setAuthorizationCode and setRefreshToken, in seconds
Ttls == {0, 60}

getOauthCode(code) ==
    /\ ops < MaxFacadeOps
    /\ LET key == encode(CodeKey(code))
           r == get(store, key, now)
       IN  /\ Apply(r, 0)
           /\ inv' = Mix(inv, 0, r)
           /\ last' = Done("getOauthCode", key, r, store)
    /\ ops' = ops + 1
    /\ UNCHANGED <<persist, now, watch, hist, clientVars, moreVars>>

getRefreshToken(subject, refreshToken) ==
    /\ ops < MaxFacadeOps
    /\ LET key == encode(RefreshKey(subject, refreshToken))
           r == get(store, key, now)
       IN  /\ Apply(r, 0)
           /\ inv' = Mix(inv, 0, r)
           /\ last' = Done("getRefreshToken", key, r, store)
    /\ ops' = ops + 1
    /\ UNCHANGED <<persist, now, watch, hist, clientVars, moreVars>>

setAuthorizationCode(code, properties, ttl) ==
    /\ ops < MaxFacadeOps
    /\ LET key == encode(CodeKey(code))
           r == set(store, key, properties, ExpNumber(ttl))
       IN  /\ Apply(r, 0)
           /\ inv' = Mix(inv, 0, r)
           /\ last' = [Done("setAuthorizationCode", key, r, store)
                           EXCEPT !.ttl = ttl]
    /\ ops' = ops + 1
    /\ UNCHANGED <<persist, now, watch, hist, clientVars, moreVars>>

setRefreshToken(subject, refreshToken, properties, ttl) ==
    /\ ops < MaxFacadeOps
    /\ LET key == encode(RefreshKey(subject, refreshToken))
           r == set(store, key, properties, ExpNumber(ttl))
       IN  /\ Apply(r, 0)
           /\ inv' = Mix(inv, 0, r)
           /\ last' = [Done("setRefreshToken", key, r, store) EXCEPT !.ttl = ttl]
    /\ ops' = ops + 1
    /\ UNCHANGED <<persist, now, watch, hist, clientVars, moreVars>>

invalidateOauthCode(code) ==
    /\ ops < MaxFacadeOps
    /\ LET key == encode(CodeKey(code))
           r == remove(store, key)
       IN  /\ Apply(r, 0)
           /\ inv' = Mix(inv, 0, r)
           /\ last' = Done("invalidateOauthCode", key, r, store)
    /\ ops' = ops + 1
    /\ UNCHANGED <<persist, now, watch, hist, clientVars, moreVars>>

\* invalidateKeys(subject) is called: its loop pulls
\* adapter.scan(["oauth:refresh", subject]) for the first time
invalidateKeysCall(subject) ==
    /\ ops < MaxFacadeOps
    /\ Len(inv) < MaxScans
    /\ inv' = Append(inv, Cursor("invalidateKeys", ops + 1, subject,
                                 <<OauthRefresh, subject>>))
    /\ ops' = ops + 1
    /\ UNCHANGED <<store, file, persist, now, last, watch, hist, pending,
                   clientVars, moreVars>>

\* the loop of invalidateKeys pulls the generator: at the start, and when the
\* remove it awaited has completed, its writeFile included
Ready(cursor) ==
    \/ cursor.pc = "next"
    \/ /\ cursor.pc = "await"
       /\ \A i \in 1..Len(pending) : pending[i].owner # cursor.id

\* the generator runs to its next yield: the loop of invalidateKeys gets a key
invalidateKeysYield(c) ==
    /\ c \in 1..Len(inv)
    /\ inv[c].kind = "invalidateKeys"
    /\ Ready(inv[c])
    /\ scanHits(store, inv[c]) # {}
    /\ inv' = [inv EXCEPT ![c] = [resume(inv[c], store) EXCEPT !.pc = "remove"]]
    /\ UNCHANGED <<store, file, persist, now, last, ops, watch, hist, pending,
                   clientVars, moreVars>>

\* adapter.remove(key) is called in the body of the loop, and awaited
invalidateKeysRemove(c) ==
    /\ c \in 1..Len(inv)
    /\ inv[c].kind = "invalidateKeys"
    /\ inv[c].pc = "remove"
    /\ LET r == remove(store, inv[c].cur)
       IN  /\ Apply(r, inv[c].id)
           /\ inv' = Mix([inv EXCEPT ![c].pc = "await"], c, r)
    /\ UNCHANGED <<persist, now, last, ops, watch, hist, clientVars, moreVars>>

\* the iterator reaches the end of the array: invalidateKeys completes
invalidateKeysReturn(c) ==
    /\ c \in 1..Len(inv)
    /\ inv[c].kind = "invalidateKeys"
    /\ Ready(inv[c])
    /\ scanHits(store, inv[c]) = {}
    /\ last' = Scanned("invalidateKeys", <<inv[c].subject>>, inv[c])
    /\ inv' = RemoveAt(inv, c)
    /\ UNCHANGED <<store, file, persist, now, ops, watch, hist, pending,
                   clientVars, moreVars>>

InitTokens ==
    /\ persist \in BOOLEAN
    /\ file = <<>>
    /\ store = load(persist, file)
    /\ now = 0
    /\ last = NoOp
    /\ ops = 0
    /\ watch = <<>>
    /\ hist = NoHist
    /\ inv = <<>>
    /\ pending = <<>>
    /\ InitClientIdle
    /\ InitMoreIdle
    /\ net = NetIdle

NextTokens ==
    \/ \E code \in Codes : getOauthCode(code)
    \/ \E subject \in Subjects, token \in Tokens : getRefreshToken(subject, token)
    \/ \E code \in Codes, properties \in Values, ttl \in Ttls :
          setAuthorizationCode(code, properties, ttl)
    \/ \E subject \in Subjects, token \in Tokens, properties \in Values, ttl \in Ttls :
          setRefreshToken(subject, token, properties, ttl)
    \/ \E code \in Codes : invalidateOauthCode(code)
    \/ \E subject \in Subjects : invalidateKeysCall(subject)
    \/ \E c \in 1..Len(inv) : invalidateKeysYield(c)
    \/ \E c \in 1..Len(inv) : invalidateKeysRemove(c)
    \/ \E c \in 1..Len(inv) : invalidateKeysReturn(c)
    \/ \E i \in 1..Len(pending) : writeFileOpen(i)
    \/ \E i \in 1..Len(pending) : writeFileWrite(i)
    \/ Tick

\* the token store driven through its public operations by any callers in
\* any order, while time passes
SpecTokens == InitTokens /\ [][NextTokens]_vars

----------------------------------------------------------------------------
(* Claims about the store *)

\* comparison of two strings by UTF-16 code units
CodeUnitLess(x, y) == LexCompare(x, y) < 0

\* whether the array holds an entry under exactly this flat key
Holds(st, flat) == \E i \in 1..Len(st) : st[i].key = flat

\* the entry of the array under exactly this flat key
EntryOf(st, flat) == st[CHOOSE i \in 1..Len(st) : st[i].key = flat]

\* an entry whose expiry has passed at time t
Passed(e, t) == e.expiry # NoExpiry /\ t >= NumberOf(e.expiry)

\* C4: the backing sequence is strictly ascending by FlatKey under
\* lexicographic (code unit) string comparison, so no FlatKey occurs twice.
C4_AscendingByCodeUnit ==
    \A i \in 1..(Len(store) - 1) : CodeUnitLess(store[i].key, store[i + 1].key)

\* C5: get(k) returns the value of the most recent set(k, v, expiry) not
\* followed by remove(k), when that expiry is absent or still in the future.
C5_GetReturnsLastSet ==
    (/\ last.op = "get"
     /\ last.key = watch
     /\ hist.set
     /\ (hist.expiry = NoExpiry \/ NumberOf(hist.expiry) > last.at))
    => last.result = hist.value

\* C6: an entry whose expiry has passed is never observable: get on its key
\* returns absent and no scan yields it.
C6_ExpiredNeverObservable ==
    /\ (/\ last.op = "get"
        /\ Holds(last.before, joinKey(last.key))
        /\ Passed(EntryOf(last.before, joinKey(last.key)), last.at))
       => last.result = Undefined
    /\ last.op = "scan" /\ ~last.mixed
       => \A i \in 1..Len(last.before) :
             Passed(last.before[i], last.at)
             => \A j \in 1..Len(last.yielded) :
                   joinKey(last.yielded[j][1]) # last.before[i].key

\* C7: remove(k) on a key that is not in the store raises no error, leaves
\* the sequence unchanged and triggers no save.
C7_RemoveAbsentIsNoOp ==
    (last.op = "remove" /\ ~Holds(last.before, joinKey(last.key)))
    => (store = last.before /\ ~last.saved /\ ~last.threw)

\* C8: a new store constructed over the persistence target answers every get
\* and every scan as the original store does.
C8_PersistenceRoundTrip ==
    persist /\ pending = <<>> =>
        /\ ~loadThrows(persist, file)
        /\ LET reloaded == load(persist, file)
           IN  /\ \A key \in KvKeys :
                     get(reloaded, key, now).result = get(store, key, now).result
               /\ \A prefix \in KvPrefixes :
                     scan(reloaded, prefix, now) = scan(store, prefix, now)

\* C8 witness: a get has just deleted an expired entry and saved, and the
\* store still holds an entry.
C8_Witness ==
    /\ persist
    /\ pending = <<>>
    /\ last.op = "get" /\ last.saved
    /\ Len(store) >= 1
    /\ file = <<FileText(stringify(store))>>

----------------------------------------------------------------------------
(* Claims about the token store *)

\* the subject of the invalidateKeys call that `last` records
InvalidatedSubject == last.key[1]

\* C1: invalidateKeys(subject) removes every refresh token stored for that
\* subject: afterwards getRefreshToken(subject, tok) is absent for each of
\* them (no other caller having changed the array during the call).
C1_InvalidateRemovesAll ==
    last.op = "invalidateKeys" /\ ~last.mixed =>
        \A token \in Tokens :
            LET key == encode(RefreshKey(InvalidatedSubject, token))
            IN  Holds(last.before, joinKey(key))
                => get(store, key, now).result = Undefined

\* C2: invalidateKeys(s) removes no refresh token of another subject t: each
\* token stored under t before the call is still returned afterwards (no
\* other caller having changed the array during the call).
C2_InvalidateKeepsOthers ==
    last.op = "invalidateKeys" /\ ~last.mixed =>
        \A subject \in Subjects \ {InvalidatedSubject}, token \in Tokens :
            LET key == encode(RefreshKey(subject, token))
            IN  Holds(last.before, joinKey(key))
                => /\ Holds(store, joinKey(key))
                   /\ get(store, key, now).result
                        = EntryOf(last.before, joinKey(key)).value

----------------------------------------------------------------------------
(* The client: one verify call at a time against an issuer that may answer *)
(* a refresh request with anything.                                        *)

InitClient ==
    /\ persist = FALSE
    /\ file = <<>>
    /\ store = <<>>
    /\ now = ClientNow
    /\ last = NoOp
    /\ ops = 0
    /\ watch = <<>>
    /\ hist = NoHist
    /\ inv = <<>>
    /\ pending = <<>>
    /\ InitClientIdle
    /\ InitMoreIdle
    /\ net \in Clients

NextClient ==
    \/ \E token \in AccessTokens, refresh \in RefreshTokens \cup {NoRefresh} :
          verifyCall(token, refresh)
    \/ \E r \in DiscoveryResponses : issuerResponse(Verifier, r)
    \/ jwksLookup(Verifier)
    \/ \E r \in JwksResponses : jwksResponse(Verifier, r)
    \/ verifyJWKS
    \/ verifyToken
    \/ \E answer \in RefreshAnswers : refreshAnswer(answer)
    \/ refreshRejects
    \/ verifyResume

SpecClient == InitClient /\ [][NextClient]_vars

\* the outermost verify call has come to its end: it returned or rejected
Settled == vstack = <<>> /\ vret.kind # "none"

\* the outermost verify call has returned a result: a subject or a typed
\* error (its promise is fulfilled, not rejected)
Returned == vstack = <<>> /\ vret.kind \in {"ok", "err"}

\* a token that verify accepts at the client's clock
Accepted(token) == tryVerify(token, NoRefresh, ClientNow).kind = "ok"

\* C3: a single verify call makes at most one refresh call, whatever the
\* issuer answers.
C3_AtMostOneRefresh == refreshCalls <= 1

\* C9: a verify call with an expired access token and a valid options.refresh
\* (one the issuer exchanges for a pair whose access token verifies) that has
\* come to its end has made exactly one refresh call and has returned SUCCESS
\* with tokens set to that pair; it has not rejected.
C9_ExpiredThenRefreshed ==
    (/\ Settled
     /\ jwtVerify(vcall.token, ClientNow) = "JWTExpired"
     /\ vcall.refresh # NoRefresh
     /\ Len(answers) >= 1
     /\ answers[1].ok
     /\ Accepted(answers[1].access))
    => /\ refreshCalls = 1
       /\ vret.kind = "ok"
       /\ vret.tokens = <<[access |-> answers[1].access,
                           refresh |-> answers[1].refresh]>>

\* C10: a SUCCESS of verify has tokens populated if and only if a refresh call
\* was made during the call; a verify call with a token that verifies makes
\* no call to the token endpoint and returns SUCCESS without tokens, the one
\* other end of such a call being the rejection of the getJWKS() it awaits
\* before it looks at the token.
C10_TokensIffRefreshed ==
    Settled =>
        /\ vret.kind = "ok" => (vret.tokens # <<>> <=> refreshCalls >= 1)
        /\ Accepted(vcall.token) =>
              /\ refreshCalls = 0
              /\ vret.tokens = <<>>
              /\ \/ vret.kind = "ok"
                 \/ vret.kind = "rejected" /\ callers[Verifier].pc = "rejected"

\* C10 witness: one call returned SUCCESS without a refresh.
C10_Witness ==
    /\ Returned
    /\ vcall.token = Good1
    /\ vcall.refresh = "r1"
    /\ vret.kind = "ok"
    /\ vret.tokens = <<>>

----------------------------------------------------------------------------
(* refresh called on its own, at clocks around the 30 second margin        *)

InitRefresh ==
    /\ store = <<>>
    /\ file = <<>>
    /\ persist = FALSE
    /\ now \in RefreshClocks
    /\ last = NoOp
    /\ ops = 0
    /\ watch = <<>>
    /\ hist = NoHist
    /\ inv = <<>>
    /\ pending = <<>>
    /\ InitClientIdle
    /\ InitMoreIdle
    /\ net = NetIdle

NextRefresh ==
    \/ \E refresh \in RefreshTokens, access \in {<<>>} \cup {<<t>> : t \in RefreshAccess} :
          refreshCall(refresh, access)
    \/ \E answer \in RefreshAnswers : refreshPost(answer)
    \/ refreshPostRejects

SpecRefresh == InitRefresh /\ [][NextRefresh]_vars

\* C11: a refresh call that has returned made no POST and returned neither
\* tokens nor an error exactly when an access token was given whose exp is
\* strictly more than 30 seconds after the time of the call; in every other
\* case (exp at most now + 30 s, no exp, no access option) it made one POST
C11_SkipsIffFresh ==
    rcall.pc = "done" =>
        LET fresh == /\ rcall.access # <<>>
                     /\ rcall.access[1].exp * 1000 > rcall.at + 30 * 1000
        IN  /\ fresh => rcall.posts = 0 /\ rcall.result = Skipped
            /\ ~fresh => rcall.posts = 1 /\ rcall.result # Skipped

\* a token that expires in exactly 30 seconds was given and one POST was made
C11_Witness ==
    /\ rcall.pc = "done"
    /\ rcall.access # <<>>
    /\ rcall.access[1].exp * 1000 = rcall.at + 30 * 1000
    /\ rcall.posts = 1

----------------------------------------------------------------------------
\* C12: after setAuthorizationCode or setRefreshToken with a ttl the entry is
\* stored with absolute expiry now + ttl; the matching get returns it before
\* that time and finds it absent from that time on.
C12_StoredUntilTtl ==
    /\ last.op \in {"setAuthorizationCode", "setRefreshToken"} =>
          /\ ~last.threw
          /\ Holds(store, joinKey(last.key))
          /\ EntryOf(store, joinKey(last.key)).expiry = {last.at + last.ttl}
    /\ last.op \in {"getOauthCode", "getRefreshToken"} =>
          /\ ~last.threw
          /\ \A i \in 1..Len(last.before) :
                /\ last.before[i].key = joinKey(last.key)
                /\ last.before[i].expiry # NoExpiry
                => (last.result # Undefined
                        <=> last.at < NumberOf(last.before[i].expiry))

\* the pairs a scan of the array st is to yield at time t
scanExpected(st, prefix, t) ==
    LET hits == SelectSeq(st, LAMBDA e : /\ startsWith(e.key, joinKey(prefix))
                                         /\ ~Passed(e, t))
    IN  [i \in 1..Len(hits) |-> <<splitKey(hits[i].key), hits[i].value>>]

\* C13: a completed scan, during which no caller changed the array, has left
\* the array as it found it and saved nothing, and has yielded exactly the
\* entries of the array that are not expired and whose flat key starts with
\* the joined prefix, in stored order.
C13_ScanReadOnlyAndExact ==
    last.op = "scan" /\ ~last.mixed =>
        /\ store = last.before
        /\ ~last.saved
        /\ last.yielded = scanExpected(last.before, last.key, last.at)

\* a completed scan has changed nothing
ScanReadOnly ==
    last.op = "scan" /\ ~last.mixed => store = last.before /\ ~last.saved

----------------------------------------------------------------------------
(* The key codec applied to keys of up to MaxSegs segments                 *)

InitCodec ==
    /\ store = <<>>
    /\ file = <<>>
    /\ persist = FALSE
    /\ now = 0
    /\ last = NoOp
    /\ ops = 0
    /\ watch = <<>>
    /\ hist = NoHist
    /\ inv = <<>>
    /\ pending = <<>>
    /\ InitClientIdle
    /\ InitMoreIdle
    /\ net = NetIdle

NextCodec ==
    \/ codec.pc = "idle" /\ \E xs \in CodecKeys : joinKeyCall(xs)
    \/ splitKeyCall

SpecCodec == InitCodec /\ [][NextCodec]_vars

\* no segment of the key holds the separator
SeparatorFree(xs) ==
    \A i \in 1..Len(xs) : \A j \in 1..Len(xs[i]) : xs[i][j] # SEPERATOR

\* C14: for every sequence xs of segments without the separator, the empty
\* sequence and sequences with empty segments included, splitKey(joinKey(xs))
\* is xs.
C14_RoundTrip ==
    codec.pc = "split" /\ SeparatorFree(codec.xs) => codec.back = codec.xs

\* C14 as amended: the same for every sequence xs of at least one segment
C14_RoundTripNonEmpty ==
    codec.pc = "split" /\ SeparatorFree(codec.xs) /\ codec.xs # <<>>
        => codec.back = codec.xs

\* a key whose first segment is empty and whose second is not came back
C14_Witness ==
    /\ codec.pc = "split"
    /\ SeparatorFree(codec.xs)
    /\ Len(codec.xs) >= 2
    /\ codec.xs[1] = <<>>
    /\ codec.xs[2] # <<>>
    /\ codec.back = codec.xs

----------------------------------------------------------------------------
(* getJWKS called by callers that may overlap                              *)

InitCache ==
    /\ store = <<>>
    /\ file = <<>>
    /\ persist = FALSE
    /\ now = ClientNow
    /\ last = NoOp
    /\ ops = 0
    /\ watch = <<>>
    /\ hist = NoHist
    /\ inv = <<>>
    /\ pending = <<>>
    /\ InitClientIdle
    /\ InitMoreIdle
    /\ net \in Clients

NextCache ==
    \/ \E p \in Callers : getJWKSCall(p)
    \/ \E p \in Callers, r \in DiscoveryResponses : issuerResponse(p, r)
    \/ \E p \in Callers : jwksLookup(p)
    \/ \E p \in Callers, r \in JwksResponses : jwksResponse(p, r)

SpecCache == InitCache /\ [][NextCache]_vars

\* C15: for any interleaving of calls, overlapping ones included, the
\* discovery endpoint and the jwks_uri are each fetched at most once and
\* each cache entry is written at most once.
C15_PopulatedAtMostOnce ==
    /\ net.issuerFetches <= 1
    /\ net.issuerWrites <= 1
    /\ net.jwksFetches <= 1
    /\ net.jwksWrites <= 1

\* C15 as amended: a getJWKS call that started when issuerCache held a truthy
\* entry for the issuer has neither fetched the discovery endpoint nor
\* written issuerCache, and a call that started when jwksCache held the
\* issuer's key set has neither fetched the key set nor written jwksCache
C15_NoFetchOnceCached ==
    \A p \in Callers :
        /\ callers[p].hadIssuer =>
              ~callers[p].fetchedIssuer /\ ~callers[p].wroteIssuer
        /\ callers[p].hadJwks =>
              ~callers[p].fetchedJwks /\ ~callers[p].wroteJwks

\* a call that found both entries cached has completed, after two earlier
\* calls had overlapped and both fetched the discovery endpoint
C15_Witness ==
    /\ net.issuerFetches = 2
    /\ \E p \in Callers :
          /\ callers[p].pc = "done"
          /\ callers[p].hadIssuer
          /\ callers[p].hadJwks

\* C16: the issuer's metadata is in the cache only after a successful fetch:
\* a response that is not a success, or whose body is not valid metadata,
\* leaves issuerCache without an entry for the issuer.
C16_CachedOnlyAfterSuccess ==
    issuerCache # NoEntry => net.issuerOk /\ issuerCache = "metadata"

\* C17: a scan is evaluated over the store as it was at the call: the scan
\* of invalidateKeys, between whose pulls its consumer removes entries (and
\* no other caller changes the array), has yielded exactly the entries a
\* scan of the array found at the call yields.
C17_ScanOverSnapshot ==
    last.op = "invalidateKeys" /\ ~last.mixed =>
        last.yielded = scan(last.before, <<OauthRefresh>> \o last.key, last.at)

----------------------------------------------------------------------------
\* C18: for a token that passes the cryptographic verification, verify
\* returns success exactly when the schema of the payload's type reports no
\* issues and the mode is "access", and InvalidSubject in every other case,
\* a type without schema included; it never returns InvalidAccessToken.
C18_ValidTokenVerdict ==
    Returned /\ jwtVerify(vcall.token, now) = "payload" =>
        IF vcall.token.known /\ ~vcall.token.issues /\ vcall.token.mode = "access"
        THEN vret.kind = "ok"
        ELSE vret.kind = "err" /\ vret.err = "InvalidSubject"

\* C20: when verify returns success with tokens, they are the pair the token
\* endpoint issued last: tokens.access is the access token whose verification
\* gave the subject and tokens.refresh the refresh token issued with it.
C20_TokensAreLatestPair ==
    Returned /\ vret.kind = "ok" /\ vret.tokens # <<>> =>
        /\ vret.tokens[1].access = answers[Len(answers)].access
        /\ vret.tokens[1].refresh = answers[Len(answers)].refresh
        /\ vret.subject = vret.tokens[1].access.id

----------------------------------------------------------------------------
(* The adapter with a persistence target.  In SpecAwaited one caller      *)
(* awaits each operation before it calls the next; in SpecAsync operations *)
(* are called while the writes of earlier ones are in flight.              *)

\* keys the operations are called with
PersistKeys == {<<StrA, StrC>>, <<StrB>>}

InitPersist ==
    /\ store = <<>>
    /\ file = <<>>
    /\ persist = TRUE
    /\ now = 0
    /\ last = NoOp
    /\ ops = 0
    /\ watch = <<>>
    /\ hist = NoHist
    /\ inv = <<>>
    /\ pending = <<>>
    /\ InitClientIdle
    /\ InitMoreIdle
    /\ net = NetIdle

NextAsync ==
    \/ \E key \in PersistKeys : KvGet(key)
    \/ \E key \in PersistKeys, value \in Values, expiry \in KvExpiries :
          KvSet(key, value, expiry)
    \/ \E key \in PersistKeys : KvRemove(key)
    \/ \E i \in 1..Len(pending) : writeFileOpen(i)
    \/ \E i \in 1..Len(pending) : writeFileWrite(i)
    \/ Tick

\* the caller calls an operation only when the one before has completed
NextAwaited ==
    \/ pending = <<>> /\ \E key \in PersistKeys : KvGet(key)
    \/ pending = <<>> /\ \E key \in PersistKeys, value \in Values,
                            expiry \in KvExpiries : KvSet(key, value, expiry)
    \/ pending = <<>> /\ \E key \in PersistKeys : KvRemove(key)
    \/ \E i \in 1..Len(pending) : writeFileOpen(i)
    \/ \E i \in 1..Len(pending) : writeFileWrite(i)
    \/ Tick

SpecAwaited == InitPersist /\ [][NextAwaited]_vars

SpecAsync == InitPersist /\ [][NextAsync]_vars

\* C19: once every operation issued has completed, its write included, the
\* persisted representation is the in-memory array, whether or not the
\* operations were awaited one after the other.
C19_EventuallyPersisted ==
    pending = <<>> => ~loadThrows(persist, file) /\ load(persist, file) = store

====
